---- MODULE Spec2Model ----
(***************************************************************************)
(* Run profiles of the RIDE test runner plugin                             *)
(* (src/robotide/contrib/testrunner/runprofiles.py).                       *)
(*                                                                         *)
(* A profile builds the argument list of the robot runner from four plugin *)
(* settings, owns a lazily built settings panel, and forwards the panel's  *)
(* GUI events to the plugin's save_setting.  Two profiles, a BaseProfile   *)
(* and a PybotProfile, each bound to a plugin of its own holding the same  *)
(* settings, are driven side by side: every host call and every GUI event  *)
(* is delivered to both.                                                   *)
(*                                                                         *)
(* Python strings that the code takes apart (the tag strings, the argument *)
(* tokens) are sequences of one-character strings; names that the code     *)
(* only compares or passes on are TLA+ strings.                            *)
(***************************************************************************)
EXTENDS Integers, Sequences, FiniteSets, TLC

VARIABLES osname, plugin, toolbar, panels, lastOp, ret, saved

vars == <<osname, plugin, toolbar, panels, lastOp, ret, saved>>

-----------------------------------------------------------------------------
(* Bounds and input sets                                                   *)

MaxLen == 3

MaxBuilds == 2

Profiles == {"BaseProfile", "PybotProfile"}

OsNames == {"nt", "posix", "java"}

Parents == {"frame1", "frame2"}

\* the characters str.strip() removes that a TLA+ string can name
Whitespace == {" ", "\t", "\n", "\r", "\f"}

Alphabet == {"a", "b", " ", ","}

Example == <<"a", ",", " ", "b", " ", ",", ",", "c">>

Blank == <<" ", ",", "\t">>

Samples == {<< >>, Example, Blank}

Spaced == <<"x", " ", "y", ",", "x", " ", "y">>

AllStrings == UNION {[1..n -> Alphabet] : n \in 0..MaxLen}

SettingNames == {"apply_include_tags", "include_tags", "apply_exclude_tags", "exclude_tags"}

-----------------------------------------------------------------------------
(* Python built-ins used by the code                                       *)

\* bool(s) of a string: the empty string is false
Truthy(s) == Len(s) > 0

\* s.split(","): the segments between the commas, left to right
RECURSIVE split(_)
split(s) ==
    LET idx == {i \in 1..Len(s) : s[i] = ","}
    IN  IF idx = {} THEN <<s>>
        ELSE LET i == CHOOSE k \in idx : \A j \in idx : k <= j
             IN  <<SubSeq(s, 1, i - 1)>> \o split(SubSeq(s, i + 1, Len(s)))

RECURSIVE lstrip(_)
lstrip(s) ==
    IF Len(s) > 0 /\ s[1] \in Whitespace THEN lstrip(Tail(s)) ELSE s

RECURSIVE rstrip(_)
rstrip(s) ==
    IF Len(s) > 0 /\ s[Len(s)] \in Whitespace
    THEN rstrip(SubSeq(s, 1, Len(s) - 1)) ELSE s

\* strip that forgets the right end
strip_LeftOnly(s) == lstrip(s)

\* s.strip(): whitespace removed from both ends
strip(s) == rstrip(lstrip(s))

\* "--include=%s" % tag and "--exclude=%s" % tag
IncludeOpt == <<"-", "-", "i", "n", "c", "l", "u", "d", "e", "=">>

ExcludeOpt == <<"-", "-", "e", "x", "c", "l", "u", "d", "e", "=">>

format(opt, tag) == opt \o tag

-----------------------------------------------------------------------------
(* Return values and outcomes of a call                                    *)

RetList(l) == [kind |-> "list", list |-> l, panel |-> 0, exc |-> ""]

RetPanel(n) == [kind |-> "panel", list |-> << >>, panel |-> n, exc |-> ""]

RetNone == [kind |-> "none", list |-> << >>, panel |-> 0, exc |-> ""]

Raise(e) == [kind |-> "raise", list |-> << >>, panel |-> 0, exc |-> e]

\* self: the profile after the call; ret: what the call returned or raised;
\* saved: the save_setting calls it made, in order
Outcome(self, r, calls) == [self |-> self, ret |-> r, saved |-> calls]

-----------------------------------------------------------------------------
(* The host plugin                                                         *)

\* plugin.save_setting(name, value, delay=...): the host stores the value
save_setting(plg, name, value, delay) ==
    [plugin |-> [plg EXCEPT ![name] = value],
     call   |-> [name |-> name, value |-> value, delay |-> delay]]

-----------------------------------------------------------------------------
(* class BaseProfile                                                       *)

\* the attributes an instance has: those __init__ assigns and those of its
\* class and base class
InstanceAttrs == {"plugin", "toolbar"}

BaseAttrs ==
    {"plugin", "get_toolbar", "get_custom_args", "get_command_prefix",
     "TagsPanel", "_create_checkbox", "set_setting", "OnExcludeCheckbox",
     "OnIncludeCheckbox", "OnIncludeTagsChanged", "OnExcludeTagsChanged"}

PybotAttrs == {"name", "get_command_prefix"}

HasAttr(cls, a) ==
    \/ a \in InstanceAttrs
    \/ a \in BaseAttrs
    \/ cls = "PybotProfile" /\ a \in PybotAttrs

\* the class whose definition of method m an instance of cls runs
Owner(cls, m) ==
    IF cls = "PybotProfile" /\ m \in PybotAttrs THEN "PybotProfile" ELSE "BaseProfile"

\* __init__: the profile keeps the plugin and has no toolbar yet
NewProfile(cls, plg) == [cls |-> cls, plugin |-> plg, toolbar |-> 0, panels |-> << >>]

\* _create_checkbox: a checkbox showing value
create_checkbox(value) == value

\* TagsPanel(parent): a new panel whose controls show the plugin's settings
\* and whose events are bound to the profile's handlers
TagsPanel(self, parent) ==
    [serial       |-> Len(self.panels) + 1,
     parent       |-> parent,
     include_cb   |-> create_checkbox(self.plugin.apply_include_tags),
     exclude_cb   |-> create_checkbox(self.plugin.apply_exclude_tags),
     include_tags |-> self.plugin.include_tags,
     exclude_tags |-> self.plugin.exclude_tags,
     bind         |-> [include_cb   |-> "OnIncludeCheckbox",
                       exclude_cb   |-> "OnExcludeCheckbox",
                       include_tags |-> "OnIncludeTagsChanged",
                       exclude_tags |-> "OnExcludeTagsChanged"]]

\* get_toolbar without the None test: every call builds a panel
get_toolbar_Rebuilding(self, parent) ==
    LET panel == TagsPanel(self, parent)
        built == [self EXCEPT !.panels = Append(@, panel),
                              !.toolbar = panel.serial]
    IN  [self |-> built,
         ret |-> [kind |-> "panel", list |-> << >>, panel |-> built.toolbar, exc |-> ""],
         saved |-> << >>]

\* get_toolbar(parent): toolbar 0 is None, n > 0 is the n-th panel built
get_toolbar(self, parent) ==
    IF self.toolbar = 0
    THEN LET panel == TagsPanel(self, parent)
             built == [self EXCEPT !.panels = Append(@, panel),
                                   !.toolbar = panel.serial]
         IN  Outcome(built, RetPanel(built.toolbar), << >>)
    ELSE Outcome(self, RetPanel(self.toolbar), << >>)

\* the loop without the len(tag) > 0 test
RECURSIVE append_tags_NoSkip(_, _, _)
append_tags_NoSkip(args, segments, opt) ==
    IF segments = << >> THEN args
    ELSE append_tags_NoSkip(Append(args, format(opt, strip(Head(segments)))),
                            Tail(segments), opt)

\* the for loop of get_custom_args over the segments of one tag string
RECURSIVE append_tags(_, _, _)
append_tags(args, segments, opt) ==
    IF segments = << >> THEN args
    ELSE LET tag == strip(Head(segments))
         IN  append_tags(IF Len(tag) > 0 THEN Append(args, format(opt, tag)) ELSE args,
                         Tail(segments), opt)

\* the include branch without the apply_include_tags test
include_args_Unchecked(args, plg) ==
    IF Truthy(plg.include_tags)
    THEN append_tags(args, split(plg.include_tags), IncludeOpt)
    ELSE args

include_args(args, plg) ==
    IF plg.apply_include_tags /\ Truthy(plg.include_tags)
    THEN append_tags(args, split(plg.include_tags), IncludeOpt)
    ELSE args

exclude_args(args, plg) ==
    IF plg.apply_exclude_tags /\ Truthy(plg.exclude_tags)
    THEN append_tags(args, split(plg.exclude_tags), ExcludeOpt)
    ELSE args

\* get_custom_args with the exclude branch before the include branch
get_custom_args_ExcludeFirst(self) ==
    Outcome(self, RetList(include_args(exclude_args(<< >>, self.plugin), self.plugin)), << >>)

get_custom_args(self) ==
    Outcome(self, RetList(exclude_args(include_args(<< >>, self.plugin), self.plugin)), << >>)

\* the prefix without the Windows case
Base_get_command_prefix_NoBat(os) == <<"pybot">>

Base_get_command_prefix(os) ==
    IF os = "nt" THEN <<"pybot.bat">> ELSE <<"pybot">>

\* the override naming another runner script
Pybot_get_command_prefix_Other(os) ==
    IF os = "nt" THEN <<"pybot.bat">> ELSE <<"pybot.sh">>

Pybot_get_command_prefix(os) ==
    IF os = "nt" THEN <<"pybot.bat">> ELSE <<"pybot">>

\* get_command_prefix that drops the cached toolbar
get_command_prefix_Resetting(self, os) ==
    Outcome([self EXCEPT !.toolbar = 0],
            RetList(IF Owner(self.cls, "get_command_prefix") = "PybotProfile"
                    THEN Pybot_get_command_prefix(os)
                    ELSE Base_get_command_prefix(os)),
            << >>)

get_command_prefix(self, os) ==
    Outcome(self,
            RetList(IF Owner(self.cls, "get_command_prefix") = "PybotProfile"
                    THEN Pybot_get_command_prefix(os)
                    ELSE Base_get_command_prefix(os)),
            << >>)

SettingDelay == 2

set_setting(self, name, value) ==
    LET r == save_setting(self.plugin, name, value, SettingDelay)
    IN  Outcome([self EXCEPT !.plugin = r.plugin], RetNone, <<r.call>>)

OnExcludeCheckbox(self, evt) == set_setting(self, "apply_exclude_tags", evt.checked)

\* the include handler writing the exclude flag
OnIncludeCheckbox_Crossed(self, evt) == set_setting(self, "apply_exclude_tags", evt.checked)

OnIncludeCheckbox(self, evt) == set_setting(self, "apply_include_tags", evt.checked)

\* self.includeTags and self.excludeTags are read but assigned nowhere
OnIncludeTagsChanged(self, evt) ==
    IF HasAttr(self.cls, "includeTags")
    THEN set_setting(self, "include_tags", self.includeTags)
    ELSE Outcome(self, Raise("AttributeError"), << >>)

OnExcludeTagsChanged(self, evt) ==
    IF HasAttr(self.cls, "excludeTags")
    THEN set_setting(self, "exclude_tags", self.excludeTags)
    ELSE Outcome(self, Raise("AttributeError"), << >>)

\* wx delivers an event of a control to the handler bound to it
Dispatch(self, evt) ==
    LET handler == self.panels[self.toolbar].bind[evt.source]
    IN  CASE handler = "OnIncludeCheckbox"    -> OnIncludeCheckbox(self, evt)
          [] handler = "OnExcludeCheckbox"    -> OnExcludeCheckbox(self, evt)
          [] handler = "OnIncludeTagsChanged" -> OnIncludeTagsChanged(self, evt)
          [] handler = "OnExcludeTagsChanged" -> OnExcludeTagsChanged(self, evt)

-----------------------------------------------------------------------------
(* The state: profile p with its plugin, and what its last call did        *)

Self(p) == [cls |-> p, plugin |-> plugin[p], toolbar |-> toolbar[p], panels |-> panels[p]]

Settings(strings) ==
    [apply_include_tags : BOOLEAN, include_tags : strings,
     apply_exclude_tags : BOOLEAN, exclude_tags : strings]

\* both profiles are constructed on plugins holding the settings s
Start(s) ==
    /\ osname \in OsNames
    /\ plugin = [p \in Profiles |-> NewProfile(p, s).plugin]
    /\ toolbar = [p \in Profiles |-> NewProfile(p, s).toolbar]
    /\ panels = [p \in Profiles |-> NewProfile(p, s).panels]
    /\ lastOp = "__init__"
    /\ ret = [p \in Profiles |-> RetNone]
    /\ saved = [p \in Profiles |-> << >>]

Init == \E s \in Settings(Samples) : Start(s)

\* the call op ran on every profile with outcome out[p]
Commit(op, out) ==
    /\ lastOp' = op
    /\ plugin' = [p \in Profiles |-> out[p].self.plugin]
    /\ toolbar' = [p \in Profiles |-> out[p].self.toolbar]
    /\ panels' = [p \in Profiles |-> out[p].self.panels]
    /\ ret' = [p \in Profiles |-> out[p].ret]
    /\ saved' = [p \in Profiles |-> out[p].saved]
    /\ UNCHANGED osname

Shown(p) == panels[p][toolbar[p]]

\* the user clicks checkbox cb of the shown panel: it flips, and wx sends
\* the checkbox event carrying the new state
Click(self, cb) ==
    LET flipped == [self EXCEPT !.panels[self.toolbar][cb] = ~@]
    IN  Dispatch(flipped, [source |-> cb, checked |-> flipped.panels[self.toolbar][cb]])

\* the user changes the text of control ctl of the shown panel, and wx sends
\* the text event
Edit(self, ctl, text) ==
    LET typed == [self EXCEPT !.panels[self.toolbar][ctl] = text]
    IN  Dispatch(typed, [source |-> ctl, checked |-> FALSE])

-----------------------------------------------------------------------------
(* Host calls and GUI events                                               *)

GetToolbar ==
    \E parent \in Parents :
        /\ \A p \in Profiles : Len(get_toolbar(Self(p), parent).self.panels) <= MaxBuilds
        /\ Commit("get_toolbar", [p \in Profiles |-> get_toolbar(Self(p), parent)])

GetCustomArgs ==
    Commit("get_custom_args", [p \in Profiles |-> get_custom_args(Self(p))])

GetCommandPrefix ==
    Commit("get_command_prefix", [p \in Profiles |-> get_command_prefix(Self(p), osname)])

SetSetting ==
    \E name \in SettingNames :
        \E value \in IF name \in {"apply_include_tags", "apply_exclude_tags"}
                     THEN BOOLEAN ELSE Samples :
            Commit("set_setting", [p \in Profiles |-> set_setting(Self(p), name, value)])

ClickIncludeCheckbox ==
    /\ \A p \in Profiles : toolbar[p] # 0
    /\ Commit("click_include_cb", [p \in Profiles |-> Click(Self(p), "include_cb")])

ClickExcludeCheckbox ==
    /\ \A p \in Profiles : toolbar[p] # 0
    /\ Commit("click_exclude_cb", [p \in Profiles |-> Click(Self(p), "exclude_cb")])

EditIncludeTags ==
    \E text \in Samples :
        /\ \A p \in Profiles : toolbar[p] # 0 /\ Shown(p).include_tags # text
        /\ Commit("edit_include_tags", [p \in Profiles |-> Edit(Self(p), "include_tags", text)])

EditExcludeTags ==
    \E text \in Samples :
        /\ \A p \in Profiles : toolbar[p] # 0 /\ Shown(p).exclude_tags # text
        /\ Commit("edit_exclude_tags", [p \in Profiles |-> Edit(Self(p), "exclude_tags", text)])

Next ==
    \/ GetToolbar
    \/ GetCustomArgs
    \/ GetCommandPrefix
    \/ SetSetting
    \/ ClickIncludeCheckbox
    \/ ClickExcludeCheckbox
    \/ EditIncludeTags
    \/ EditExcludeTags

Spec == Init /\ [][Next]_vars

-----------------------------------------------------------------------------
(* get_custom_args as a function of the settings: every tag string up to   *)
(* MaxLen characters, paired with a sample string for the other setting    *)

ArgSamples == Samples \cup {Spaced}

ArgStrings == AllStrings \cup ArgSamples

ArgSettings ==
    [apply_include_tags : BOOLEAN, include_tags : ArgStrings,
     apply_exclude_tags : BOOLEAN, exclude_tags : ArgSamples]
    \cup
    [apply_include_tags : BOOLEAN, include_tags : ArgSamples,
     apply_exclude_tags : BOOLEAN, exclude_tags : ArgStrings]

InitArgs == \E s \in ArgSettings : Start(s)

NextArgs ==
    \/ GetCustomArgs
    \/ GetCommandPrefix

SpecArgs == InitArgs /\ [][NextArgs]_vars

-----------------------------------------------------------------------------
(* Vocabulary of the properties                                            *)

HasPrefix(t, opt) == Len(t) >= Len(opt) /\ SubSeq(t, 1, Len(opt)) = opt

IsInclude(t) == HasPrefix(t, IncludeOpt)

IsExclude(t) == HasPrefix(t, ExcludeOpt)

\* what follows the option of a token
TagOf(t) == SubSeq(t, Len(IncludeOpt) + 1, Len(t))

IncludeTokens(l) == SelectSeq(l, IsInclude)

ExcludeTokens(l) == SelectSeq(l, IsExclude)

\* the positions at which the comma-separated segments of s start, and the
\* position at which the segment starting at b ends
SegStarts(s) == {1} \cup {i + 1 : i \in {j \in 1..Len(s) : s[j] = ","}}

SegEnd(s, b) ==
    LET after == {j \in b..Len(s) : s[j] = ","}
    IN  IF after = {} THEN Len(s) ELSE (CHOOSE j \in after : \A k \in after : j <= k) - 1

\* the positions of the segment at b that hold no whitespace
Inked(s, b) == {i \in b..SegEnd(s, b) : s[i] \notin Whitespace}

\* the segment at b without the whitespace around it
Trimmed(s, b) ==
    LET ink == Inked(s, b)
    IN  SubSeq(s, CHOOSE i \in ink : \A j \in ink : i <= j,
                  CHOOSE i \in ink : \A j \in ink : j <= i)

\* the starts of the segments whose trimmed value is non-empty
TagStarts(s) == {b \in SegStarts(s) : Inked(s, b) # {}}

\* one token per such segment, left to right
Expected(opt, s) ==
    [k \in 1..Cardinality(TagStarts(s)) |->
        opt \o Trimmed(s, CHOOSE b \in TagStarts(s) :
                              Cardinality({c \in TagStarts(s) : c < b}) = k - 1)]

ExampleTokens(opt) == <<opt \o <<"a">>, opt \o <<"b">>, opt \o <<"c">>>>

SameSeq(l, f) == Len(l) = Cardinality(DOMAIN f) /\ \A k \in 1..Len(l) : l[k] = f[k]

-----------------------------------------------------------------------------
(* Properties                                                              *)

\* C1: with the apply flag true, get_custom_args returns exactly one token
\* --include=<t> (--exclude=<t>) per comma-separated segment of the tag string
\* whose trimmed value t is non-empty, in the order of the segments, with
\* duplicates kept; "a, b ,,c" gives --include=a, --include=b, --include=c.
TokensPerSegment ==
    lastOp = "get_custom_args" =>
        \A p \in Profiles :
            /\ plugin[p].apply_include_tags =>
                /\ SameSeq(IncludeTokens(ret[p].list), Expected(IncludeOpt, plugin[p].include_tags))
                /\ plugin[p].include_tags = Example =>
                       IncludeTokens(ret[p].list) = ExampleTokens(IncludeOpt)
            /\ plugin[p].apply_exclude_tags =>
                /\ SameSeq(ExcludeTokens(ret[p].list), Expected(ExcludeOpt, plugin[p].exclude_tags))
                /\ plugin[p].exclude_tags = Example =>
                       ExcludeTokens(ret[p].list) = ExampleTokens(ExcludeOpt)

TokensPerSegmentWitness ==
    /\ lastOp = "get_custom_args"
    /\ plugin["BaseProfile"].apply_include_tags
    /\ plugin["BaseProfile"].include_tags = Example
    /\ plugin["BaseProfile"].apply_exclude_tags
    /\ plugin["BaseProfile"].exclude_tags = <<"b", ",", "b">>
    /\ Len(ret["BaseProfile"].list) = 5

\* C2: with apply_include_tags false the result holds no --include= token,
\* with apply_exclude_tags false it holds no --exclude= token, and a false
\* flag does not suppress the tokens of the other kind.
HasTag(s) == \E i \in 1..Len(s) : s[i] \notin Whitespace \cup {","}

FlagGatesOwnKind ==
    lastOp = "get_custom_args" =>
        \A p \in Profiles :
            /\ ~plugin[p].apply_include_tags => IncludeTokens(ret[p].list) = << >>
            /\ ~plugin[p].apply_exclude_tags => ExcludeTokens(ret[p].list) = << >>
            /\ plugin[p].apply_exclude_tags /\ HasTag(plugin[p].exclude_tags)
                   => ExcludeTokens(ret[p].list) # << >>
            /\ plugin[p].apply_include_tags /\ HasTag(plugin[p].include_tags)
                   => IncludeTokens(ret[p].list) # << >>

FlagGatesOwnKindWitness ==
    /\ lastOp = "get_custom_args"
    /\ ~plugin["BaseProfile"].apply_include_tags
    /\ HasTag(plugin["BaseProfile"].include_tags)
    /\ plugin["BaseProfile"].apply_exclude_tags
    /\ ExcludeTokens(ret["BaseProfile"].list) # << >>
    /\ IncludeTokens(ret["BaseProfile"].list) = << >>

\* C3: with both apply flags true, the result is the include tokens followed
\* by the exclude tokens: no --exclude= token stands before an --include= one.
IncludeBeforeExclude ==
    lastOp = "get_custom_args" =>
        \A p \in Profiles :
            plugin[p].apply_include_tags /\ plugin[p].apply_exclude_tags =>
                LET l == ret[p].list
                IN  /\ l = IncludeTokens(l) \o ExcludeTokens(l)
                    /\ \A i, j \in 1..Len(l) : IsInclude(l[i]) /\ IsExclude(l[j]) => i < j

IncludeBeforeExcludeWitness ==
    /\ lastOp = "get_custom_args"
    /\ plugin["PybotProfile"].apply_include_tags
    /\ plugin["PybotProfile"].apply_exclude_tags
    /\ Len(IncludeTokens(ret["PybotProfile"].list)) >= 2
    /\ Len(ExcludeTokens(ret["PybotProfile"].list)) >= 2

\* C4: on one profile the settings panel is built at most once: the first
\* get_toolbar builds it, and every later get_toolbar, whatever its parent and
\* whatever happened in between, returns that same panel without rebuilding.
PanelBuiltOnce ==
    /\ [](\A p \in Profiles :
            /\ Len(panels[p]) <= 1
            /\ lastOp = "get_toolbar" => ret[p] = RetPanel(1) /\ toolbar[p] = 1)
    /\ [][\A p \in Profiles :
            toolbar[p] # 0 =>
                /\ toolbar'[p] = toolbar[p]
                /\ Len(panels'[p]) = Len(panels[p])
                /\ panels'[p][toolbar[p]].serial = panels[p][toolbar[p]].serial
                /\ panels'[p][toolbar[p]].parent = panels[p][toolbar[p]].parent]_vars

\* get_toolbar has returned after the text of the panel it built was edited
PanelBuiltOnceWitness ==
    /\ lastOp = "get_toolbar"
    /\ toolbar["BaseProfile"] = 1
    /\ panels["BaseProfile"][1].parent = "frame2"
    /\ panels["BaseProfile"][1].include_tags # plugin["BaseProfile"].include_tags
    /\ panels["BaseProfile"][1].exclude_cb # plugin["BaseProfile"].apply_exclude_tags

\* C5: editing the include-tags (exclude-tags) text control of the built panel
\* results in one set_setting call for "include_tags" ("exclude_tags") with the
\* current text of that control, and raises no error.
TextEditSaved ==
    /\ lastOp = "edit_include_tags" =>
        \A p \in Profiles :
            /\ ret[p].kind # "raise"
            /\ Len(saved[p]) = 1
            /\ saved[p][1].name = "include_tags"
            /\ saved[p][1].value = Shown(p).include_tags
    /\ lastOp = "edit_exclude_tags" =>
        \A p \in Profiles :
            /\ ret[p].kind # "raise"
            /\ Len(saved[p]) = 1
            /\ saved[p][1].name = "exclude_tags"
            /\ saved[p][1].value = Shown(p).exclude_tags

\* C6: toggling the include checkbox calls save_setting exactly once, with
\* name "apply_include_tags", the new checked state and delay 2; toggling the
\* exclude checkbox does the same with "apply_exclude_tags"; neither writes
\* the other's setting; set_setting returns no value.
OneCall(calls, name, value) ==
    /\ Len(calls) = 1
    /\ calls[1].name = name
    /\ calls[1].value = value
    /\ calls[1].delay = 2

CheckboxSaved ==
    /\ lastOp = "click_include_cb" =>
        \A p \in Profiles :
            /\ OneCall(saved[p], "apply_include_tags", Shown(p).include_cb)
            /\ ret[p] = RetNone
    /\ lastOp = "click_exclude_cb" =>
        \A p \in Profiles :
            /\ OneCall(saved[p], "apply_exclude_tags", Shown(p).exclude_cb)
            /\ ret[p] = RetNone
    /\ lastOp = "set_setting" =>
        \A p \in Profiles : ret[p] = RetNone /\ Len(saved[p]) = 1 /\ saved[p][1].delay = 2

CheckboxSavedWitness ==
    /\ lastOp = "click_include_cb"
    /\ Shown("BaseProfile").include_cb
    /\ plugin["BaseProfile"].apply_include_tags
    /\ ~plugin["BaseProfile"].apply_exclude_tags
    /\ Shown("BaseProfile").exclude_cb

\* C7: get_command_prefix returns ["pybot.bat"] when os.name is "nt" and
\* ["pybot"] for every other os.name, for BaseProfile and for PybotProfile,
\* whatever the plugin settings.
PrefixByOs ==
    lastOp = "get_command_prefix" =>
        \A p \in Profiles :
            /\ ret[p].kind = "list"
            /\ osname = "nt" => ret[p].list = <<"pybot.bat">>
            /\ osname # "nt" => ret[p].list = <<"pybot">>

PrefixByOsWitness ==
    /\ lastOp = "get_command_prefix"
    /\ osname = "nt"
    /\ ret["BaseProfile"].list = <<"pybot.bat">>
    /\ ret["PybotProfile"].list = <<"pybot.bat">>
    /\ plugin["BaseProfile"].apply_include_tags

\* C8: every element get_custom_args returns is --include=<t> or --exclude=<t>
\* with t non-empty, holding no comma and no whitespace at either end; a true
\* apply flag with an empty, blank or comma-only tag string gives no token of
\* that kind, and the call raises nothing.
WellFormedTag(t) ==
    /\ Len(t) > 0
    /\ \A i \in 1..Len(t) : t[i] # ","
    /\ t[1] \notin Whitespace
    /\ t[Len(t)] \notin Whitespace

TokensWellFormed ==
    lastOp = "get_custom_args" =>
        \A p \in Profiles :
            /\ ret[p].kind = "list"
            /\ \A i \in 1..Len(ret[p].list) :
                   LET t == ret[p].list[i]
                   IN  (IsInclude(t) \/ IsExclude(t)) /\ WellFormedTag(TagOf(t))
            /\ ~HasTag(plugin[p].include_tags) => IncludeTokens(ret[p].list) = << >>
            /\ ~HasTag(plugin[p].exclude_tags) => ExcludeTokens(ret[p].list) = << >>

TokensWellFormedWitness ==
    /\ lastOp = "get_custom_args"
    /\ plugin["BaseProfile"].apply_include_tags
    /\ plugin["BaseProfile"].include_tags = <<",", " ", ",">>
    /\ plugin["BaseProfile"].apply_exclude_tags
    /\ plugin["BaseProfile"].exclude_tags = Spaced
    /\ Len(ret["BaseProfile"].list) = 2

\* C9: a PybotProfile and a BaseProfile bound to equal settings and given the
\* same calls and events return the same results, make the same save_setting
\* calls and are left in the same state, the command prefix included.
SameBehaviour ==
    /\ ret["PybotProfile"] = ret["BaseProfile"]
    /\ saved["PybotProfile"] = saved["BaseProfile"]
    /\ plugin["PybotProfile"] = plugin["BaseProfile"]
    /\ toolbar["PybotProfile"] = toolbar["BaseProfile"]
    /\ panels["PybotProfile"] = panels["BaseProfile"]

SameBehaviourWitness ==
    /\ lastOp = "get_command_prefix"
    /\ osname = "posix"
    /\ ret["PybotProfile"].list = <<"pybot">>
    /\ toolbar["PybotProfile"] = 1
    /\ Shown("PybotProfile").include_cb # panels["PybotProfile"][1].exclude_cb
    /\ plugin["PybotProfile"].include_tags # Shown("PybotProfile").include_tags

\* C10: get_custom_args and get_command_prefix only read: they make no
\* save_setting call and leave the four settings and the cached toolbar as
\* they were, so a call repeated with nothing in between returns the same list.
PureReads ==
    [][lastOp' \in {"get_custom_args", "get_command_prefix"} =>
          /\ plugin' = plugin
          /\ toolbar' = toolbar
          /\ panels' = panels
          /\ \A p \in Profiles : saved'[p] = << >>
          /\ lastOp = lastOp' => ret' = ret]_vars

PureReadsWitness ==
    /\ lastOp = "get_custom_args"
    /\ toolbar["BaseProfile"] = 1
    /\ saved["BaseProfile"] = << >>
    /\ Len(ret["BaseProfile"].list) = 6

====
